---- MODULE Spec2Model ----
(***************************************************************************)
(* The /api/salservice handler get_items of src/main.py as a state machine. *)
(*                                                                          *)
(* Text (a Python str, the SQL statement) is a sequence of atoms: an atom   *)
(* is either the single-quote character "'" alone, or a piece of text that *)
(* holds no single quote.  The text is the concatenation of its atoms.      *)
(* Python and JSON values are tagged records [t |-> type, v |-> payload].   *)
(* A local variable that is not yet bound holds Unbound or the empty text.  *)
(***************************************************************************)
EXTENDS Integers, Sequences, FiniteSets, TLC

VARIABLES
    pc,                 \* position of the handler: idle, build, connect, run, project,
                        \* except (an exception is on its way to the except clause), done
    env,                \* os.environ, the entries get_db_connection reads
    request,            \* the HTTP request: [is_json, body]
    data,               \* get_items: data = request.get_json()
    table_name,         \* get_items: table_name
    actual_columns,     \* get_items: actual_columns
    required_filters,   \* get_items: required_filters
    query,              \* get_items: query, the SQL text
    conn,               \* get_items: conn, 0 when unbound, else the connection's number
    rows,               \* get_items: rows
    items,              \* get_items: items
    response,           \* what the handler returned: [status, body]
    exc,                \* the exception raised inside the try block, e of the except clause
    connects,           \* number of calls of get_db_connection
    open_conns,         \* database connections established and not closed
    executed            \* the statements sent to the executor, in order

vars == <<pc, env, request, data, table_name, actual_columns, required_filters,
          query, conn, rows, items, response, exc, connects, open_conns, executed>>

-----------------------------------------------------------------------------
(* Bounds of the model *)

MaxStrLen == 3      \* longest string filter value, in characters
MaxPairs == 2       \* most filter members of a request body
MaxRows == 2        \* most rows the executor returns
MaxRowLen == 5      \* longest row the executor returns
MaxReqPairs == 2    \* most filter members of a request in the whole-handler specification

-----------------------------------------------------------------------------
(* Values *)

StrOf(s) == [t |-> "str", v |-> s]
IntOf(n) == [t |-> "int", v |-> n]
BoolOf(b) == [t |-> "bool", v |-> b]
Null == [t |-> "null", v |-> <<>>]
List(xs) == [t |-> "list", v |-> xs]
Obj(pairs) == [t |-> "obj", v |-> pairs]
Dict(f) == [t |-> "dict", v |-> f]
Decimal(n) == [t |-> "Decimal", v |-> n]
Float(n) == [t |-> "float", v |-> n]
Bytes(s) == [t |-> "bytes", v |-> s]
Invalid == [t |-> "invalid", v |-> <<>>]
Unbound == [t |-> "unbound", v |-> <<>>]
NoResponse == [status |-> 0, body |-> Unbound]

Range(s) == {s[i] : i \in DOMAIN s}

\* sequences over S of length at most n
SeqsUpTo(S, n) == UNION {[1..k -> S] : k \in 0..n}

\* json.loads of an object: a dict, the last member of a repeated key wins
ToDict(pairs) ==
    [k \in {p[1] : p \in Range(pairs)} |->
        LET last == CHOOSE i \in DOMAIN pairs :
                        /\ pairs[i][1] = k
                        /\ \A j \in DOMAIN pairs : pairs[j][1] = k => j <= i
        IN pairs[last][2]]

\* request.get_json() on a body that parses
Parse(body) == IF body.t = "obj" THEN Dict(ToDict(body.v)) ELSE body

\* bool(x) of a parsed JSON value
Truthy(x) ==
    CASE x.t = "str" -> x.v # <<>>
      [] x.t = "int" -> x.v # 0
      [] x.t = "bool" -> x.v
      [] x.t = "null" -> FALSE
      [] x.t = "list" -> x.v # <<>>
      [] x.t = "dict" -> DOMAIN x.v # {}
      [] OTHER -> TRUE

\* isinstance(x, int): bool is a subclass of int
IsInstanceInt(x) == x.t \in {"int", "bool"}

\* isinstance(x, str)
IsInstanceStr(x) == x.t = "str"

\* x != 0 for an int or a bool (False == 0, True == 1)
NotEqualZero(x) == IF x.t = "bool" THEN x.v ELSE x.v # 0

DigitChar(d) == <<"0", "1", "2", "3", "4", "5", "6", "7", "8", "9">>[d + 1]

RECURSIVE Digits(_)
Digits(n) == IF n < 10 THEN <<DigitChar(n)>>
             ELSE Digits(n \div 10) \o <<DigitChar(n % 10)>>

\* the text an f-string puts for an int or a bool
Format(x) ==
    IF x.t = "bool" THEN (IF x.v THEN <<"True">> ELSE <<"False">>)
    ELSE IF x.v < 0 THEN <<"-">> \o Digits(-x.v) ELSE Digits(x.v)

-----------------------------------------------------------------------------
(* The registry *)

allowed_tables == <<"IASSALHEAD", "IASSALITEM", "IASCUSTOMER", "IASINVSTOCK", "IASMATBASIC">>

table_required_filters ==
    [IASSALHEAD |-> <<"DOCTYPE", "DOCNUM">>,
     IASSALITEM |-> <<"DOCTYPE", "DOCNUM", "DOCITEM", "MATERIAL">>,
     IASCUSTOMER |-> <<"CUSTOMER", "CUSTNAME", "CITY">>,
     IASINVSTOCK |-> <<"MATERIAL", "WAREHOUSE", "STOCKPLACE", "STEXT">>,
     IASMATBASIC |-> <<"MATERIAL", "SKUNIT", "MATTYPE", "NAME">>]

table_columns ==
    [IASSALITEM |-> <<"id", "DOCTYPE", "DOCNUM", "DOCITEM", "REFDOCTYPE", "REFDOCNUM",
                      "REFITEMNUM", "MATERIAL", "QUANTITY">>,
     IASSALHEAD |-> <<"id", "DOCTYPE", "DOCNUM", "VALIDFROM", "VALIDUNTIL", "ISOFFCHAR",
                      "ISORDCHAR", "ISDELCHAR", "ISINVCHAR", "CUSTOMER">>,
     IASCUSTOMER |-> <<"id", "CUSTOMER", "CUSTNAME", "CITY">>,
     IASINVSTOCK |-> <<"id", "MATERIAL", "AVAILSTOCK", "WAREHOUSE", "STOCKPLACE", "STEXT">>,
     IASMATBASIC |-> <<"id", "MATERIAL", "SKUNIT", "MATTYPE", "BRUTWEIGHT", "NAME">>]

\* a check of the type alone
IsAnyString(name) == name.t = "str"

\* table_name in allowed_tables: list membership by ==
IsAllowed(name) == name.t = "str" /\ \E i \in DOMAIN allowed_tables : name.v = <<allowed_tables[i]>>

\* registry.get(table_name, [])
Get(registry, name) ==
    IF name.t = "str" /\ Len(name.v) = 1 /\ name.v[1] \in DOMAIN registry
    THEN registry[name.v[1]] ELSE <<>>

-----------------------------------------------------------------------------
(* Responses and the exception handler *)

Exc(type, msg) == [type |-> type, msg |-> msg]

NoExc == Exc("none", <<>>)

\* jsonify({'error': msg}), 400
BadRequest(msg) == [status |-> 400, body |-> Dict([error |-> <<msg>>])]

\* the answer without the traceback
ServerErrorMessageOnly(e) ==
    [status |-> 500, body |-> Dict([error |-> <<"Database error: ">> \o e.msg])]

\* the except clause: jsonify({'error': f'Database error: {e}', 'traceback': trace}), 500
ServerError(e) ==
    [status |-> 500,
     body |-> Dict([error |-> <<"Database error: ">> \o e.msg,
                    traceback |-> <<"Traceback (most recent call last):", e.type, ": ">> \o e.msg])]

\* jsonify(items), 200
Success(its) == [status |-> 200, body |-> List(its)]

-----------------------------------------------------------------------------
(* Validation of the request: get_items up to the choice of the table *)

\* 'TABLE' in data, for the types that support the operator
Contains(d, key) ==
    CASE d.t = "dict" -> key \in DOMAIN d.v
      [] d.t = "list" -> \E i \in DOMAIN d.v : d.v[i] = StrOf(<<key>>)
      [] d.t = "str" -> \E i \in DOMAIN d.v : d.v[i] = key
      [] OTHER -> FALSE

\* the handler's locals and answer once validation has run; pc is "build" when it passed
Outcome(p, d, tn, cols, filters, resp, e) ==
    [pc |-> p, data |-> d, table_name |-> tn, actual_columns |-> cols,
     required_filters |-> filters, response |-> resp, exc |-> e]

\* a return inside the try block
Return(d, tn, resp) == Outcome("done", d, tn, <<>>, <<>>, resp, NoExc)

\* an exception inside the try block
Raise(d, tn, e) == Outcome("except", d, tn, <<>>, <<>>, NoResponse, e)

Received(req) ==
    IF ~req.is_json THEN Return(Unbound, Unbound, BadRequest("Request must be JSON"))
    ELSE IF req.body.t = "invalid"
    THEN Raise(Unbound, Unbound,
               Exc("BadRequest", <<"400 Bad Request: Failed to decode JSON object">>))
    ELSE LET d == Parse(req.body) IN
    IF d.t \notin {"dict", "list", "str"}
    THEN Raise(d, Unbound,
               Exc("TypeError", <<"argument of type ", "'", d.t, "'", " is not iterable">>))
    ELSE IF ~Contains(d, "TABLE")
    THEN Return(d, Unbound, BadRequest("Missing required parameter: TABLE"))
    ELSE IF d.t # "dict"
    THEN Raise(d, Unbound,
               Exc("AttributeError",
                   <<"'", d.t, "'", " object has no attribute ", "'", "get", "'">>))
    ELSE IF ~Truthy(d.v["TABLE"])
    THEN Return(d, Unbound, BadRequest("Missing required parameter: TABLE"))
    ELSE LET tn == d.v["TABLE"] IN
    IF ~IsAllowed(tn)
    THEN Return(d, tn, BadRequest("Invalid table name"))
    ELSE Outcome("build", d, tn, Get(table_columns, tn), Get(table_required_filters, tn),
                 NoResponse, NoExc)

-----------------------------------------------------------------------------
(* Construction of the statement *)

\* the value as it came
Unescaped(s) == s

\* value.replace("'", "''")
RECURSIVE Replace(_)
Replace(s) ==
    IF s = <<>> THEN <<>>
    ELSE (IF Head(s) = "'" THEN <<"'", "'">> ELSE <<Head(s)>>) \o Replace(Tail(s))

\* the branch with the exact-match predicate is taken
TakesExact(column, d) ==
    /\ column = "DOCITEM"
    /\ "DOCITEM" \in DOMAIN d.v
    /\ IsInstanceInt(d.v["DOCITEM"])
    /\ NotEqualZero(d.v["DOCITEM"])

\* the branch without the test for the empty string
TakesLikeEmpty(column, d) ==
    /\ ~TakesExact(column, d)
    /\ column \in DOMAIN d.v
    /\ IsInstanceStr(d.v[column])

\* the branch with the substring predicate is taken
TakesLike(column, d) ==
    /\ ~TakesExact(column, d)
    /\ column \in DOMAIN d.v
    /\ IsInstanceStr(d.v[column])
    /\ d.v[column].v # <<>>

\* what one turn of the loop over required_filters appends to query
Predicate(column, d) ==
    IF TakesExact(column, d)
    THEN <<" AND \"", column, "\" = ">> \o Format(d.v["DOCITEM"])
    ELSE IF TakesLike(column, d)
    THEN <<" AND \"", column, "\" LIKE ", "'", "%">> \o Replace(d.v[column].v) \o <<"%", "'">>
    ELSE <<>>

BaseQuery(tn) == <<"SELECT * FROM \"">> \o tn.v \o <<"\" WHERE 1=1">>

RECURSIVE AppendFilters(_, _, _)
AppendFilters(q, filters, d) ==
    IF filters = <<>> THEN q
    ELSE AppendFilters(q \o Predicate(Head(filters), d), Tail(filters), d)

\* the loop over the keys of the body instead of the table's filter list
BuildQueryByBody(tn, filters, d) ==
    AppendFilters(BaseQuery(tn), [i \in DOMAIN request.body.v |-> request.body.v[i][1]], d)

BuildQuery(tn, filters, d) == AppendFilters(BaseQuery(tn), filters, d)

-----------------------------------------------------------------------------
(* Projection of the rows *)

\* a Decimal cell becomes a float, any other cell is kept
Convert(cell) == IF cell.t = "Decimal" THEN Float(cell.v) ELSE cell

\* the positions of the column list the inner loop assigns from
Assigned(row, cols) == {i \in DOMAIN cols : i <= Len(row)}

\* every column assigned, None where the row has no value
ProjectRowPadded(row, cols) ==
    [c \in Range(cols) |->
        LET i == CHOOSE i \in DOMAIN cols : cols[i] = c
        IN IF i <= Len(row) THEN Convert(row[i]) ELSE Null]

ProjectRow(row, cols) ==
    [c \in {cols[i] : i \in Assigned(row, cols)} |->
        LET last == CHOOSE i \in Assigned(row, cols) :
                        /\ cols[i] = c
                        /\ \A j \in Assigned(row, cols) : cols[j] = c => j <= i
        IN Convert(row[last])]

ProjectRows(rs, cols) == [k \in DOMAIN rs |-> ProjectRow(rs[k], cols)]

\* jsonify can serialise the value
Serialisable(x) == x.t # "bytes"

CanJsonify(its) == \A k \in DOMAIN its : \A c \in DOMAIN its[k] : Serialisable(its[k][c])

-----------------------------------------------------------------------------
(* get_db_connection *)

DigitChars == {"0", "1", "2", "3", "4", "5", "6", "7", "8", "9"}

\* int(text) returns
ParsesAsInt(s) == s # <<>> /\ \A i \in DOMAIN s : s[i] \in DigitChars

\* not user or not password or not host or not database
MissingParameters(e) ==
    ~Truthy(e.PGUSER) \/ ~Truthy(e.PGPASSWORD) \/ ~Truthy(e.POSTGRES_HOST) \/ ~Truthy(e.PGDATABASE)

\* os.environ.get('NEON_PORT', '5432')
PortText(e) == IF e.NEON_PORT.t = "null" THEN <<"5", "4", "3", "2">> ELSE e.NEON_PORT.v

\* the exception get_db_connection raises before it reaches the driver, if any
EnvError(e) ==
    IF MissingParameters(e)
    THEN Exc("ValueError", <<"Missing required database parameters">>)
    ELSE IF ~ParsesAsInt(PortText(e))
    THEN Exc("ValueError", <<"invalid literal for int() with base 10">>)
    ELSE NoExc

-----------------------------------------------------------------------------
(* The inputs: environments, requests, executor results *)

OkEnv ==
    [PGUSER |-> StrOf(<<"u">>), PGPASSWORD |-> StrOf(<<"p">>), POSTGRES_HOST |-> StrOf(<<"h">>),
     PGDATABASE |-> StrOf(<<"d">>), NEON_PORT |-> Null]

Envs ==
    {OkEnv,
     [OkEnv EXCEPT !.NEON_PORT = StrOf(<<"5", "4", "3", "3">>)],
     [OkEnv EXCEPT !.NEON_PORT = StrOf(<<"a", "b", "c">>)],
     [OkEnv EXCEPT !.PGUSER = Null],
     [OkEnv EXCEPT !.PGPASSWORD = StrOf(<<>>)]}

Alphabet == {"a", "'"}

Strings == {StrOf(s) : s \in SeqsUpTo(Alphabet, MaxStrLen)}

\* members a body may hold beside the filters of its table: a filter of other tables that
\* is an output column of IASSALHEAD, the item number, and a member no table filters on
OtherKeys == {"CUSTOMER", "DOCITEM", "USERNAME"}

BodyKeys(t) == Range(table_required_filters[t]) \cup OtherKeys

SimpleValues == {StrOf(<<"a">>), StrOf(<<>>), IntOf(0), IntOf(7)}

RichValues ==
    Strings \cup {StrOf(<<"5">>), IntOf(0), IntOf(7), IntOf(-12), BoolOf(TRUE), BoolOf(FALSE),
                  Null, List(<<>>)}

TableMember(t) == <<"TABLE", StrOf(<<t>>)>>

TableValues ==
    {StrOf(<<allowed_tables[i]>>) : i \in DOMAIN allowed_tables} \cup
    {StrOf(<<"BOGUS">>), StrOf(<<"iassalhead">>), StrOf(<<>>), StrOf(<<"IASSALHEAD", "'">>),
     IntOf(0), IntOf(7), BoolOf(TRUE), Null, List(<<>>), List(<<StrOf(<<"IASSALHEAD">>)>>)}

ReqPairs ==
    SeqsUpTo({"DOCITEM", "MATERIAL", "USERNAME"} \X {StrOf(<<"a", "'">>), IntOf(7)}, MaxReqPairs)

Bodies ==
    {Invalid, Null, IntOf(5), BoolOf(TRUE), StrOf(<<"a">>), StrOf(<<"x", "TABLE">>),
     List(<<>>), List(<<StrOf(<<"TABLE">>)>>)} \cup
    {Obj(ps) : ps \in ReqPairs} \cup
    {Obj(<<<<"TABLE", tv>>>> \o ps) : tv \in TableValues, ps \in ReqPairs} \cup
    {Obj(ps \o <<<<"TABLE", tv>>>>) : tv \in TableValues, ps \in ReqPairs}

Requests ==
    {[is_json |-> TRUE, body |-> b] : b \in Bodies} \cup
    {[is_json |-> FALSE, body |-> b] : b \in {Invalid, Obj(<<TableMember("IASSALHEAD")>>)}}

\* the rows of the whole-handler specification: short, long, with a Decimal, with bytes
SampleRows ==
    {<<IntOf(1), StrOf(<<"A100">>), StrOf(<<"Acme">>)>>,
     <<IntOf(2), StrOf(<<"B200">>), Decimal(15), StrOf(<<"LA">>), Null, IntOf(3), IntOf(4),
       IntOf(5), IntOf(6), IntOf(7), IntOf(8)>>,
     <<IntOf(3), Bytes(<<"x">>)>>}

ExecutorResults == SeqsUpTo(SampleRows, MaxRows)

\* the rows of the projection specification: length n, a Decimal at position d if d > 0
RowOf(n, d) ==
    [i \in 1..n |-> IF i = d THEN Decimal(10 * i + 5)
                    ELSE IF i % 2 = 1 THEN IntOf(i) ELSE StrOf(<<"a", DigitChar(i)>>)]

ProjectionRows ==
    {RowOf(n, d) : n \in 0..MaxRowLen, d \in 0..MaxRowLen} \cup {<<IntOf(1), Bytes(<<"x">>)>>}

-----------------------------------------------------------------------------
(* The handler *)

\* the request arrives: the checks of the request and of the table name
Receive ==
    /\ pc = "idle"
    /\ \E req \in Requests :
        LET r == Received(req) IN
        /\ request' = req
        /\ pc' = r.pc
        /\ data' = r.data
        /\ table_name' = r.table_name
        /\ actual_columns' = r.actual_columns
        /\ required_filters' = r.required_filters
        /\ response' = r.response
        /\ exc' = r.exc
    /\ UNCHANGED <<env, query, conn, rows, items, connects, open_conns, executed>>

\* the statement is built
Build ==
    /\ pc = "build"
    /\ query' = BuildQuery(table_name, required_filters, data)
    /\ pc' = "connect"
    /\ UNCHANGED <<env, request, data, table_name, actual_columns, required_filters, conn,
                   rows, items, response, exc, connects, open_conns, executed>>

\* conn = get_db_connection(): it raises, or the driver connects or fails to
Connect ==
    /\ pc = "connect"
    /\ connects' = connects + 1
    /\ \E connected \in BOOLEAN :
        LET e == IF EnvError(env).type # "none" THEN EnvError(env)
                 ELSE IF ~connected
                 THEN Exc("InterfaceError", <<"Can", "'", "t create a connection">>)
                 ELSE NoExc
        IN IF e.type = "none"
           THEN /\ conn' = open_conns + 1
                /\ open_conns' = open_conns + 1
                /\ pc' = "run"
                /\ exc' = exc
           ELSE /\ pc' = "except"
                /\ exc' = e
                /\ UNCHANGED <<conn, open_conns>>
    /\ UNCHANGED <<env, request, data, table_name, actual_columns, required_filters, query,
                   rows, items, response, executed>>

\* the statement is sent again when the executor raises
RunRetry ==
    /\ pc = "run"
    /\ \/ \E rs \in ExecutorResults :
            /\ rows' = rs
            /\ executed' = Append(executed, query)
            /\ pc' = "project"
            /\ exc' = exc
       \/ /\ pc' = "except"
          /\ executed' = executed \o <<query, query>>
          /\ exc' = Exc("DatabaseError", <<"relation does not exist">>)
          /\ rows' = rows
    /\ UNCHANGED <<env, request, data, table_name, actual_columns, required_filters, query,
                   conn, items, response, connects, open_conns>>

\* rows = conn.run(query): the executor returns rows or raises
Run ==
    /\ pc = "run"
    /\ executed' = Append(executed, query)
    /\ \/ \E rs \in ExecutorResults :
            /\ rows' = rs
            /\ pc' = "project"
            /\ exc' = exc
       \/ /\ pc' = "except"
          /\ exc' = Exc("DatabaseError", <<"relation does not exist">>)
          /\ rows' = rows
    /\ UNCHANGED <<env, request, data, table_name, actual_columns, required_filters, query,
                   conn, items, response, connects, open_conns>>

\* the rows are projected and the answer is made
Project ==
    /\ pc = "project"
    /\ items' = ProjectRows(rows, actual_columns)
    /\ IF CanJsonify(items')
       THEN /\ pc' = "done"
            /\ response' = Success(items')
            /\ exc' = exc
       ELSE /\ pc' = "except"
            /\ exc' = Exc("TypeError", <<"Object of type bytes is not JSON serializable">>)
            /\ response' = response
    /\ UNCHANGED <<env, request, data, table_name, actual_columns, required_filters, query,
                   conn, rows, connects, open_conns, executed>>

\* the except clause answers
Except ==
    /\ pc = "except"
    /\ response' = ServerError(exc)
    /\ pc' = "done"
    /\ UNCHANGED <<env, request, data, table_name, actual_columns, required_filters, query,
                   conn, rows, items, exc, connects, open_conns, executed>>

NoRequest == [is_json |-> FALSE, body |-> Unbound]

Init ==
    /\ pc = "idle"
    /\ env \in Envs
    /\ request = NoRequest
    /\ data = Unbound
    /\ table_name = Unbound
    /\ actual_columns = <<>>
    /\ required_filters = <<>>
    /\ query = <<>>
    /\ conn = 0
    /\ rows = <<>>
    /\ items = <<>>
    /\ response = NoResponse
    /\ exc = NoExc
    /\ connects = 0
    /\ open_conns = 0
    /\ executed = <<>>

Next == Receive \/ Build \/ Connect \/ Run \/ Project \/ Except

Spec == Init /\ [][Next]_vars

\* the handler at the construction of the statement, for a body with the members ps
InitBuildFrom(t, ps) ==
    LET req == [is_json |-> TRUE, body |-> Obj(<<TableMember(t)>> \o ps)]
        r == Received(req)
    IN
    /\ pc = r.pc
    /\ env = OkEnv
    /\ request = req
    /\ data = r.data
    /\ table_name = r.table_name
    /\ actual_columns = r.actual_columns
    /\ required_filters = r.required_filters
    /\ query = <<>>
    /\ conn = 0
    /\ rows = <<>>
    /\ items = <<>>
    /\ response = r.response
    /\ exc = r.exc
    /\ connects = 0
    /\ open_conns = 0
    /\ executed = <<>>

\* bodies with up to MaxPairs simple members, and bodies with one member of any value
InitBuild ==
    \E i \in DOMAIN allowed_tables :
        LET t == allowed_tables[i] IN
        \/ \E k \in 0..MaxPairs : \E ps \in [1..k -> BodyKeys(t) \X SimpleValues] :
                InitBuildFrom(t, ps)
        \/ \E p \in BodyKeys(t) \X RichValues : InitBuildFrom(t, <<p>>)

SpecBuild == InitBuild /\ [][Build]_vars

\* the handler at the projection, for the rows of ProjectionResults
InitProject ==
    \E i \in DOMAIN allowed_tables, n \in 0..MaxRows : \E rs \in [1..n -> ProjectionRows] :
        LET req == [is_json |-> TRUE, body |-> Obj(<<TableMember(allowed_tables[i])>>)]
            r == Received(req)
            q == BuildQuery(r.table_name, r.required_filters, r.data)
        IN
        /\ pc = "project"
        /\ env = OkEnv
        /\ request = req
        /\ data = r.data
        /\ table_name = r.table_name
        /\ actual_columns = r.actual_columns
        /\ required_filters = r.required_filters
        /\ query = q
        /\ conn = 1
        /\ rows = rs
        /\ items = <<>>
        /\ response = NoResponse
        /\ exc = NoExc
        /\ connects = 1
        /\ open_conns = 1
        /\ executed = <<q>>

SpecProject == InitProject /\ [][Project \/ Except]_vars

-----------------------------------------------------------------------------
(* What the claims speak of *)

TheFive == {"IASSALHEAD", "IASSALITEM", "IASCUSTOMER", "IASINVSTOCK", "IASMATBASIC"}

OneOfTheFive(x) == x.t = "str" /\ Len(x.v) = 1 /\ x.v[1] \in TheFive

\* the body is a JSON object with a member TABLE
HasTableKey(body) == body.t = "obj" /\ \E i \in DOMAIN body.v : body.v[i][1] = "TABLE"

\* the value of the last member TABLE of the body
TableOf(body) ==
    body.v[CHOOSE i \in DOMAIN body.v :
               /\ body.v[i][1] = "TABLE"
               /\ \A j \in DOMAIN body.v : body.v[j][1] = "TABLE" => j <= i][2]

\* an empty value: the empty string, zero, false, null, the empty list
EmptyValue(x) ==
    x \in {StrOf(<<>>), IntOf(0), BoolOf(FALSE), Null, List(<<>>)}

\* the request passed validation: JSON, with an allowed table
Validated ==
    /\ pc # "idle"
    /\ request.is_json
    /\ HasTableKey(request.body)
    /\ OneOfTheFive(TableOf(request.body))

\* the body answers with an error message and nothing else
MessageOnly(resp) == resp.body.t = "dict" /\ DOMAIN resp.body.v = {"error"}

NoDatabaseUse == query = <<>> /\ connects = 0 /\ open_conns = 0 /\ conn = 0 /\ executed = <<>>

\* the positions of the statement where a predicate on the field starts
PredicatesOn(q, field) ==
    {i \in DOMAIN q : q[i] = " AND \"" /\ i < Len(q) /\ q[i + 1] = field}

\* the fields of the statement's predicates, in the order of the text
RECURSIVE FieldsFrom(_, _)
FieldsFrom(q, i) ==
    IF i >= Len(q) THEN <<>>
    ELSE IF q[i] = " AND \"" THEN <<q[i + 1]>> \o FieldsFrom(q, i + 2)
    ELSE FieldsFrom(q, i + 1)

Fields(q) == FieldsFrom(q, 1)

\* the position of the field in the list, 0 when absent
IndexIn(list, field) ==
    IF \E i \in DOMAIN list : list[i] = field
    THEN CHOOSE i \in DOMAIN list : list[i] = field
    ELSE 0

\* the statement with no predicate
Bare(t) == <<"SELECT * FROM \"", t, "\" WHERE 1=1">>

\* the number of single quotes among the first n characters of v
RECURSIVE QuotesBefore(_, _)
QuotesBefore(v, n) ==
    IF n = 0 THEN 0 ELSE QuotesBefore(v, n - 1) + (IF v[n] = "'" THEN 1 ELSE 0)

\* e is v with every single quote doubled and every other character unchanged
IsDoubled(v, e) ==
    /\ Len(e) = Len(v) + QuotesBefore(v, Len(v))
    /\ \A i \in DOMAIN v :
        LET j == i + QuotesBefore(v, i - 1) IN
        /\ e[j] = v[i]
        /\ v[i] = "'" => e[j + 1] = "'"

\* a SQL lexer inside a string literal, from position j on: the position of the quote
\* that ends the literal (a quote not followed by a quote), 0 if none does
RECURSIVE LiteralEnd(_, _)
LiteralEnd(q, j) ==
    IF j > Len(q) THEN 0
    ELSE IF q[j] # "'" THEN LiteralEnd(q, j + 1)
    ELSE IF j < Len(q) /\ q[j + 1] = "'" THEN LiteralEnd(q, j + 2)
    ELSE j

\* at position i of q stands the substring predicate on the field for the value v
LikeAt(q, i, field, v) ==
    \E n \in 0..(Len(q) - i - 6) :
        /\ SubSeq(q, i, i + 4) = <<" AND \"", field, "\" LIKE ", "'", "%">>
        /\ IsDoubled(v, SubSeq(q, i + 5, i + 4 + n))
        /\ SubSeq(q, i + 5 + n, i + 6 + n) = <<"%", "'">>
        /\ LiteralEnd(q, i + 4) = i + 6 + n
        /\ (i + 6 + n = Len(q) \/ q[i + 7 + n] = " AND \"")

Built == pc = "connect" /\ data.t = "dict"

-----------------------------------------------------------------------------
(* C1 *)

\* the TABLE value is non-empty and not one of the five identifiers
C1_Case ==
    /\ pc # "idle"
    /\ request.is_json
    /\ HasTableKey(request.body)
    /\ ~EmptyValue(TableOf(request.body))
    /\ ~OneOfTheFive(TableOf(request.body))

\* C1: a request whose TABLE value is non-empty and not one of the five identifiers is
\* answered at once with status 400 and an error message; no SQL text is built, no
\* connection is acquired and no statement is sent to the executor.
C1_InvalidTableRejected ==
    C1_Case =>
        /\ pc = "done"
        /\ response.status = 400
        /\ MessageOnly(response)
        /\ NoDatabaseUse

C1_Witness ==
    /\ C1_Case
    /\ TableOf(request.body) = StrOf(<<"BOGUS">>)
    /\ Len(request.body.v) > 1
    /\ response.status = 400

-----------------------------------------------------------------------------
(* C2 *)

C2_Case ==
    /\ Built
    /\ table_name = StrOf(<<"IASSALITEM">>)
    /\ "DOCITEM" \in DOMAIN data.v

\* C2: for IASSALITEM a supplied DOCITEM of integer 0 or of a non-integer type adds no
\* predicate on DOCITEM to the statement; a non-zero integer n adds exactly one, the
\* exact match "DOCITEM" = n.
C2_ItemNumber ==
    C2_Case =>
        LET x == data.v["DOCITEM"]
            at == PredicatesOn(query, "DOCITEM")
        IN IF x.t = "int" /\ x.v # 0
           THEN /\ Cardinality(at) = 1
                /\ \A i \in at :
                    SubSeq(query, i, i + 2 + Len(Format(x))) =
                        <<" AND \"", "DOCITEM", "\" = ">> \o Format(x)
           ELSE at = {}

-----------------------------------------------------------------------------
(* C3 *)

\* C3: every non-empty string value v of a field of the table's filter list adds the
\* predicate "field" LIKE '%e%', e being v with each single quote doubled and nothing else
\* changed; the literal ends at the closing quote the handler wrote and nowhere before.
C3_LikeEscaped ==
    Built =>
        \A k \in DOMAIN required_filters :
            LET field == required_filters[k] IN
            (field \in DOMAIN data.v /\ data.v[field].t = "str" /\ data.v[field].v # <<>>) =>
                /\ Cardinality(PredicatesOn(query, field)) = 1
                /\ \A i \in PredicatesOn(query, field) : LikeAt(query, i, field, data.v[field].v)

C3_Witness ==
    /\ Built
    /\ table_name = StrOf(<<"IASCUSTOMER">>)
    /\ "CUSTNAME" \in DOMAIN data.v
    /\ data.v["CUSTNAME"] = StrOf(<<"a", "'", "a">>)
    /\ query = Bare("IASCUSTOMER") \o
               <<" AND \"", "CUSTNAME", "\" LIKE ", "'", "%", "a", "'", "'", "a", "%", "'">>

-----------------------------------------------------------------------------
(* C4 *)

Min(a, b) == IF a < b THEN a ELSE b

Projected == pc \in {"done", "except"} /\ Len(items) = Len(rows)

\* the record of row k has exactly the first min(len(row), len(columns)) columns
C4_Fields(k) ==
    LET n == Min(Len(rows[k]), Len(actual_columns)) IN
    /\ DOMAIN items[k] = {actual_columns[i] : i \in 1..n}
    /\ Cardinality(DOMAIN items[k]) = n

\* C4 as stated: the record of a row r has exactly min(len(r), len(c)) fields, c[i] -> r[i];
\* a row shorter than the column list raises no error and is not padded.
C4_AsStated ==
    Projected =>
        \A k \in DOMAIN rows :
            /\ C4_Fields(k)
            /\ \A i \in 1..Min(Len(rows[k]), Len(actual_columns)) :
                items[k][actual_columns[i]] = rows[k][i]

\* C4, amended: the record of a row r has exactly min(len(r), len(c)) fields, c[i] -> r[i]
\* with a Decimal r[i] turned into the float of the same value; a row shorter than the
\* column list raises no error and is not padded.
C4_Projection ==
    Projected =>
        /\ \A k \in DOMAIN rows :
            /\ C4_Fields(k)
            /\ \A i \in 1..Min(Len(rows[k]), Len(actual_columns)) :
                items[k][actual_columns[i]] =
                    IF rows[k][i].t = "Decimal" THEN [t |-> "float", v |-> rows[k][i].v]
                    ELSE rows[k][i]
        /\ (\A k \in DOMAIN rows : \A i \in DOMAIN rows[k] : rows[k][i].t # "bytes") =>
                pc = "done" /\ response.status = 200 /\ response.body = List(items)

C4_Witness ==
    /\ pc = "done"
    /\ Len(actual_columns) = 9
    /\ Len(rows) = 2
    /\ Len(rows[1]) = 3
    /\ rows[1][2].t = "Decimal"
    /\ Cardinality(DOMAIN items[1]) = 3
    /\ Len(rows[2]) = 5
    /\ response.status = 200

-----------------------------------------------------------------------------
(* C5 *)

\* the request is not JSON, or its body has no TABLE key, or its TABLE value is empty
C5_Malformed ==
    /\ pc # "idle"
    /\ \/ ~request.is_json
       \/ request.body.t = "invalid"
       \/ ~HasTableKey(request.body)
       \/ EmptyValue(TableOf(request.body))

\* C5: every malformed request is answered with status 400 and a body that holds only an
\* error message, and no connection is acquired and no query is run for it, whatever the
\* JSON type of a body without a TABLE key.
C5_MalformedIs400 ==
    (C5_Malformed /\ pc = "done") =>
        /\ response.status = 400
        /\ MessageOnly(response)
        /\ NoDatabaseUse

-----------------------------------------------------------------------------
(* C6 *)

\* C6: every connection acquired for a request is closed by the time the response of the
\* request is produced, on every exit path.
C6_Released == pc = "done" => open_conns = 0

-----------------------------------------------------------------------------
(* C7 *)

\* a failure while the connection is acquired or while the executor runs the statement
C7_Failed == exc.type \in {"ValueError", "InterfaceError", "DatabaseError"}

\* C7: for a validated request, a failure while acquiring the connection or while the
\* executor runs the statement is answered with status 500 and a body with an error string
\* that carries the underlying message and a traceback string, the same shape in both
\* cases; the exception does not escape the handler.
C7_ServerError ==
    (Validated /\ C7_Failed) =>
        /\ pc \in {"except", "done"}
        /\ pc = "done" =>
            /\ response.status = 500
            /\ response.body.t = "dict"
            /\ DOMAIN response.body.v = {"error", "traceback"}
            /\ response.body.v["error"] = <<"Database error: ">> \o exc.msg
            /\ response.body.v["traceback"] # <<>>

C7_Witness ==
    /\ Validated
    /\ pc = "done"
    /\ exc.type = "DatabaseError"
    /\ executed # <<>>
    /\ response.status = 500

C7_WitnessConnect ==
    /\ Validated
    /\ pc = "done"
    /\ exc.type = "InterfaceError"
    /\ response.status = 500

-----------------------------------------------------------------------------
(* C8 *)

\* every filter field of the table is absent, an empty string or integer zero
C8_Case ==
    /\ Built
    /\ OneOfTheFive(table_name)
    /\ \A k \in DOMAIN table_required_filters[table_name.v[1]] :
        LET field == table_required_filters[table_name.v[1]][k] IN
        field \in DOMAIN data.v => data.v[field] \in {StrOf(<<>>), IntOf(0)}

\* C8: for each allowed table T, a request in which every filter field of T is absent, an
\* empty string or integer zero gives exactly SELECT * FROM "T" WHERE 1=1, and the request
\* does not fail for the lack of filters.
C8_NoFilters ==
    C8_Case =>
        /\ query = Bare(table_name.v[1])
        /\ table_name = TableOf(request.body)
        /\ response = NoResponse
        /\ exc = NoExc

C8_Witness ==
    /\ C8_Case
    /\ table_name = StrOf(<<"IASSALITEM">>)
    /\ DOMAIN data.v = {"TABLE", "DOCITEM", "MATERIAL"}
    /\ data.v["DOCITEM"] = IntOf(0)
    /\ data.v["MATERIAL"] = StrOf(<<>>)
    /\ query = <<"SELECT * FROM \"", "IASSALITEM", "\" WHERE 1=1">>

C8_WitnessEmptyMap ==
    /\ C8_Case
    /\ DOMAIN data.v = {"TABLE"}
    /\ table_name = StrOf(<<"IASMATBASIC">>)

-----------------------------------------------------------------------------
(* C9 *)

\* C9: only the fields of the table's filter list add predicates, each at most one, and the
\* predicates stand in the order of the registry's list, whatever the order of the keys in
\* the request.
C9_OnlyListedInOrder ==
    (Built /\ OneOfTheFive(table_name)) =>
        LET list == table_required_filters[table_name.v[1]]
            fs == Fields(query)
        IN /\ \A i \in DOMAIN fs : IndexIn(list, fs[i]) # 0
           /\ \A i, j \in DOMAIN fs : i < j => IndexIn(list, fs[i]) < IndexIn(list, fs[j])
           /\ \A name \in DOMAIN data.v :
                IndexIn(list, name) = 0 => PredicatesOn(query, name) = {}

\* the keys come in the order opposite to the registry's, beside a field of no list
C9_Witness ==
    /\ Built
    /\ table_name = StrOf(<<"IASSALITEM">>)
    /\ Len(request.body.v) = 3
    /\ request.body.v[2][1] = "MATERIAL"
    /\ request.body.v[3][1] = "DOCITEM"
    /\ Fields(query) = <<"DOCITEM", "MATERIAL">>

C9_WitnessIgnored ==
    /\ Built
    /\ table_name = StrOf(<<"IASSALHEAD">>)
    /\ "CUSTOMER" \in DOMAIN data.v
    /\ data.v["CUSTOMER"] = StrOf(<<"a">>)
    /\ "DOCITEM" \in DOMAIN data.v
    /\ data.v["DOCITEM"] = IntOf(7)
    /\ query = Bare("IASSALHEAD")

-----------------------------------------------------------------------------
(* C10 *)

\* C10: a request acquires at most one connection and sends at most one statement: one
\* when validation passed and the connection was obtained, none otherwise; a failure is not
\* retried and ends the request with the error response; the success response holds one
\* record per returned row, in the executor's row order.
C10_OnceNoRetry ==
    /\ connects <= 1
    /\ open_conns <= 1
    /\ Len(executed) <= 1
    /\ ~Validated => connects = 0 /\ executed = <<>>
    /\ conn = 0 => executed = <<>>
    /\ pc = "done" =>
        /\ (Validated /\ conn # 0) => executed = <<query>>
        /\ Validated => connects = 1
        /\ exc # NoExc => response.status = 500
        /\ response.status = 200 =>
            /\ response.body.t = "list"
            /\ Len(response.body.v) = Len(rows)
            /\ \A k \in DOMAIN rows :
                (rows[k] # <<>> /\ actual_columns # <<>>) =>
                    response.body.v[k][actual_columns[1]].v = rows[k][1].v

C10_Witness ==
    /\ pc = "done"
    /\ response.status = 200
    /\ executed = <<query>>
    /\ Len(rows) = 2
    /\ rows[1][1] = IntOf(2)
    /\ rows[2][1] = IntOf(1)
    /\ response.body.v[1]["id"] = IntOf(2)
    /\ response.body.v[2]["id"] = IntOf(1)

C10_WitnessFailure ==
    /\ pc = "done"
    /\ exc.type = "InterfaceError"
    /\ connects = 1
    /\ executed = <<>>
    /\ response.status = 500

====
